---- MODULE Spec2Model ----
(***************************************************************************)
(* Model of app.py: a Flask service that harvests proxy candidates from    *)
(* listing pages, probes each one and serves the working ones from a       *)
(* process-wide cache refreshed lazily by the request handlers.            *)
(*                                                                         *)
(* Text (urls, table cells, formatted timestamps) is a sequence of         *)
(* one-character strings, so that strip, concatenation, substring search   *)
(* and split are computed as Python computes them.  An optional value is   *)
(* None == <<>> or Some(x) == <<x>>.                                       *)
(***************************************************************************)
EXTENDS Integers, Sequences, FiniteSets, TLC

(* ------------------------------ bounds --------------------------------- *)
\* request-handling threads of the server
NumThreads == 2
\* last minute the clock reaches
MaxTime == 61
\* data rows of a listing table (after its header row)
MaxRows == 1
\* sources that answer when requests are served one at a time (the others time out)
LiveSources == 2
\* sources that answer when requests are served concurrently, and under fair scheduling
ConcurrentSources == 1
\* last minute of the clock in the concurrent and in the task-level specification
MaxTimeShort == 31
\* length of the candidate lists handed to the deduplication alone
MaxLen == 3
\* tasks submitted to an executor studied alone (more than either pool has workers)
MaxTasks == 22
\* data rows of the table handed to fetch_proxies_from_source alone
MaxFetchRows == 2

(* ------------------------- program constants --------------------------- *)
CACHE_EXPIRATION_MINUTES == 30
RowSliceStart == 1
RowSliceStop == 20
FetchWorkers == 5
VerifyWorkers == 20
HTTP_OK == 200
HTTP_BAD_REQUEST == 400
DomainIndex == 2

(* --------------------------- Python values ----------------------------- *)
None == <<>>
Some(x) == <<x>>
TheValue(o) == o[1]

Min(a, b) == IF a < b THEN a ELSE b

\* seq[lo:hi] of Python, for 0 <= lo <= hi
Slice(seq, lo, hi) == SubSeq(seq, lo + 1, Min(hi, Len(seq)))

Whitespace == {" ", "\t", "\n"}

RECURSIVE LStrip(_)
LStrip(s) ==
    IF s # <<>> /\ Head(s) \in Whitespace THEN LStrip(Tail(s)) ELSE s

RECURSIVE RStrip(_)
RStrip(s) ==
    IF s # <<>> /\ s[Len(s)] \in Whitespace
    THEN RStrip(SubSeq(s, 1, Len(s) - 1))
    ELSE s

\* str.strip()
Strip(s) == RStrip(LStrip(s))

\* sub in s, for str
Contains(sub, s) ==
    \E i \in 1..(Len(s) - Len(sub) + 1) : SubSeq(s, i, i + Len(sub) - 1) = sub

\* str.split(sep) for a one-character separator
RECURSIVE SplitFrom(_, _, _)
SplitFrom(s, sep, cur) ==
    IF s = <<>> THEN <<cur>>
    ELSE IF Head(s) = sep THEN <<cur>> \o SplitFrom(Tail(s), sep, <<>>)
    ELSE SplitFrom(Tail(s), sep, Append(cur, Head(s)))

Split(s, sep) == SplitFrom(s, sep, <<>>)

DigitChar(d) == <<"0", "1", "2", "3", "4", "5", "6", "7", "8", "9">>[d + 1]

RECURSIVE Decimal(_)
Decimal(n) ==
    IF n < 10 THEN <<DigitChar(n)>> ELSE Append(Decimal(n \div 10), DigitChar(n % 10))

\* datetime.isoformat(): the text of a time (a minute count, in decimal)
isoformat(t) == <<"T">> \o Decimal(t)

(* ----------------------------- the sources ----------------------------- *)
URL_SSLPROXIES ==
    <<"h","t","t","p","s",":","/","/","w","w","w",".","s","s","l","p","r","o",
      "x","i","e","s",".","o","r","g","/">>
URL_FREEPROXYLIST ==
    <<"h","t","t","p","s",":","/","/","f","r","e","e","-","p","r","o","x","y",
      "-","l","i","s","t",".","n","e","t","/">>
URL_HIDEMY ==
    <<"h","t","t","p","s",":","/","/","h","i","d","e","m","y",".","n","a","m",
      "e","/","e","s","/","p","r","o","x","y","-","l","i","s","t","/">>
URL_PROXYSCRAPE ==
    <<"h","t","t","p","s",":","/","/","p","r","o","x","y","s","c","r","a","p",
      "e",".","c","o","m","/","f","r","e","e","-","p","r","o","x","y","-","l",
      "i","s","t">>

sources ==
    << [url |-> URL_SSLPROXIES, parser |-> "table"],
       [url |-> URL_FREEPROXYLIST, parser |-> "table"],
       [url |-> URL_HIDEMY, parser |-> "table"],
       [url |-> URL_PROXYSCRAPE, parser |-> "table"] >>

SourceIds == 1..Len(sources)

(* ------------------- what the network can answer ----------------------- *)
\* table cells as they stand in the page
CELL_IP_A == <<"1", ".", "1">>
CELL_IP_B == <<" ", "2", ".", "2">>
CELL_PORT == <<"8", "0", "\n">>

\* a <tr> is the sequence of the texts of its <td> cells
HeaderRow == <<>>
DataRows == { <<CELL_IP_A, CELL_PORT>>, <<CELL_IP_B, CELL_PORT>>, <<CELL_IP_A>> }

RECURSIVE SeqsUpTo(_, _)
SeqsUpTo(S, n) ==
    IF n = 0 THEN {<<>>}
    ELSE LET shorter == SeqsUpTo(S, n - 1)
         IN  shorter \cup { Append(q, x) : q \in { r \in shorter : Len(r) = n - 1 }, x \in S }

\* the first <table> of a page: its rows, header first; or no rows at all
Tables == {<<>>} \cup { <<HeaderRow>> \o rows : rows \in SeqsUpTo(DataRows, MaxRows) }

\* the outcome of requests.get + BeautifulSoup for one source
NetError == [error |-> TRUE, table |-> None]
PageWithoutTable == [error |-> FALSE, table |-> None]
PageWith(t) == [error |-> FALSE, table |-> Some(t)]
Pages == {NetError, PageWithoutTable} \cup { PageWith(t) : t \in Tables }

\* the outcome of the probe request of test_proxy
ProbeError == [error |-> TRUE, status_code |-> 0]
ProbeStatus(c) == [error |-> FALSE, status_code |-> c]
Probes == {ProbeError, ProbeStatus(HTTP_OK), ProbeStatus(403)}

\* how a Python call ends
Returns(v) == [raised |-> FALSE, value |-> v]
Raises == [raised |-> TRUE, value |-> <<>>]

(* ------------------------ fetch_proxies_from_source -------------------- *)
SSL == <<"s", "s", "l">>

ParseRow(cols, url) ==
    IF Len(cols) >= 2
    THEN << [ip |-> Strip(cols[1]),
             port |-> Strip(cols[2]),
             protocol |-> IF Contains(SSL, url) THEN "https" ELSE "http",
             source |-> url,
             last_checked |-> None,
             working |-> None] >>
    ELSE <<>>

RECURSIVE ParseRows(_, _)
ParseRows(rows, url) ==
    IF rows = <<>> THEN <<>>
    ELSE ParseRow(Head(rows), url) \o ParseRows(Tail(rows), url)

\* the same without the try/except of lines 26 and 54-56
fetch_proxies_from_source_Unguarded(url, parser_type, page) ==
    IF page.error THEN Raises
    ELSE IF parser_type = "table" /\ page.table # None
    THEN Returns(ParseRows(Slice(TheValue(page.table), RowSliceStart, RowSliceStop), url))
    ELSE Returns(<<>>)

fetch_proxies_from_source(url, parser_type, page) ==
    IF page.error THEN Returns(<<>>)
    ELSE IF parser_type = "table" /\ page.table # None
    THEN Returns(ParseRows(Slice(TheValue(page.table), RowSliceStart, RowSliceStop), url))
    ELSE Returns(<<>>)

(* -------------------------------- dedupe ------------------------------- *)
COLON == <<":">>
identifier(proxy) == proxy.ip \o COLON \o proxy.port

RECURSIVE DedupeFrom(_, _)
DedupeFrom(all, seen) ==
    IF all = <<>> THEN <<>>
    ELSE IF identifier(Head(all)) \notin seen
    THEN <<Head(all)>> \o DedupeFrom(Tail(all), seen \cup {identifier(Head(all))})
    ELSE DedupeFrom(Tail(all), seen)

\* the same keeping the last record of an identifier instead of the first
Dedupe_KeepLast(all_proxies) ==
    LET rev(q) == [i \in 1..Len(q) |-> q[Len(q) + 1 - i]]
    IN  rev(DedupeFrom(rev(all_proxies), {}))

Dedupe(all_proxies) == DedupeFrom(all_proxies, {})

(* ------------------------------ test_proxy ----------------------------- *)
\* the same without the status check of line 70
test_proxy_AnyStatus(proxy, probe, t) ==
    IF ~probe.error
    THEN Some([proxy EXCEPT !.last_checked = Some(isoformat(t)), !.working = Some(TRUE)])
    ELSE None

\* Some(the stamped proxy) or None
test_proxy(proxy, probe, t) ==
    IF ~probe.error /\ probe.status_code = HTTP_OK
    THEN Some([proxy EXCEPT !.last_checked = Some(isoformat(t)), !.working = Some(TRUE)])
    ELSE None

(* ------------------- update_proxy_cache, as one function --------------- *)
RECURSIVE Concat(_)
Concat(lists) == IF lists = <<>> THEN <<>> ELSE Head(lists) \o Concat(Tail(lists))

\* lines 92-103: the fetch results, in source order (pages: one page per source)
FetchAll(pages) ==
    [s \in SourceIds |-> fetch_proxies_from_source(sources[s].url, sources[s].parser, pages[s])]

\* lines 114-120: the non-None results, in the order of unique_proxies
RECURSIVE Collect(_)
Collect(rs) ==
    IF rs = <<>> THEN <<>>
    ELSE (IF Head(rs) # None THEN <<TheValue(Head(rs))>> ELSE <<>>) \o Collect(Tail(rs))

VerifyAll(unique, probes, t) ==
    Collect([i \in 1..Len(unique) |-> test_proxy(unique[i], probes[i], t)])

\* the pages of the sources when only the first n of them answer
PagesOfLive(n) ==
    { [s \in SourceIds |-> IF s <= n THEN answered[s] ELSE NetError] :
        answered \in [1..n -> Pages] }

\* lines 92-112 over one page per source: a raise, or unique_proxies
UniqueOf(pg) ==
    LET fs == FetchAll(pg)
    IN  IF \E s \in SourceIds : fs[s].raised THEN Raises
        ELSE Returns(Dedupe(Concat([s \in SourceIds |-> fs[s].value])))

\* what lines 92-112 can yield in the two serving specifications
SeqUniques == { UniqueOf(pg) : pg \in PagesOfLive(LiveSources) }
ConcurrentUniques == { UniqueOf(pg) : pg \in PagesOfLive(ConcurrentSources) }

(* ------------------------------- state --------------------------------- *)
VARIABLES
    proxy_cache,        \* the module-level dict: proxies, last_updated, expires_in
    now,                \* datetime.now(), in minutes
    pc,                 \* per thread: where its request handler stands
    kind,               \* per thread: the route being served
    protocol,           \* per thread: the <protocol> of /proxies/<protocol>
    working_proxies,    \* per thread: the local of update_proxy_cache
    resp,               \* per thread: the response under construction
    ran,                \* per thread: update_proxy_cache calls made by this request
    published,          \* <<entries, last_updated>> of the last completed cycle
    startedSincePublish,\* update_proxy_cache calls started since the last completed cycle
    main_pc,            \* the start-up call of update_proxy_cache (line 195)
    futures,            \* its fetch tasks
    fetch_i,            \* the future the loop of line 102 waits for
    all_proxies,
    unique_proxies,
    results,            \* its verify tasks (executor.map)
    verify_i,           \* the result the loop of line 118 waits for
    main_working,       \* its working_proxies
    completed,          \* the verify tasks in the order they completed
    pool                \* a ThreadPoolExecutor seen as counts of its tasks

serveVars == <<pc, kind, protocol, working_proxies, resp, ran>>
ghostVars == <<published, startedSincePublish>>
mainVars == <<main_pc, futures, fetch_i, all_proxies, unique_proxies, results, verify_i,
              main_working, completed>>
vars == <<proxy_cache, now, serveVars, ghostVars, mainVars, pool>>

Threads == 1..NumThreads
\* no executor under study
NoPool == [max_workers |-> 0, queued |-> 0, running |-> 0, finished |-> 0]
TickSteps == {CACHE_EXPIRATION_MINUTES, CACHE_EXPIRATION_MINUTES + 1}
RequestProtocols == {"http", "https", "ftp"}
NoResp == [status |-> 0]
CyclePcs == {"harvest", "write_proxies", "write_last_updated"}

(* ------------------------------ the clock ------------------------------ *)
Tick(maxTime) ==
    /\ \E d \in TickSteps : now + d <= maxTime /\ now' = now + d
    /\ UNCHANGED <<pool, proxy_cache, serveVars, ghostVars, mainVars>>

(* --------------------------- request handlers -------------------------- *)
\* not proxy_cache['proxies']  (lines 143, 159, 174)
IsEmpty(cache) == cache.proxies = <<>>

\* the same with >= for >
IsStale_AtExpiry(cache, t) == t >= TheValue(cache.last_updated) + cache.expires_in

\* datetime.now() > proxy_cache['last_updated'] + proxy_cache['expires_in']
IsStale(cache, t) == t > TheValue(cache.last_updated) + cache.expires_in

\* the same with one more protocol let through
ValidProtocol_Ftp(p) == p \in {"http", "https", "ftp"}

\* line 156
ValidProtocol(p) == p \in {"http", "https"}

\* the same without the condition of the comprehension
FilterByProtocol_Unfiltered(ps, p) == ps

\* line 163
FilterByProtocol(ps, p) == SelectSeq(ps, LAMBDA proxy : proxy.protocol = p)

\* line 177
RECURSIVE CountHttp(_)
CountHttp(ps) ==
    IF ps = <<>> THEN 0
    ELSE (IF Head(ps).protocol = "http" THEN 1 ELSE 0) + CountHttp(Tail(ps))

\* line 182
DomainOf(proxy) == Split(proxy.source, "/")[DomainIndex + 1]

\* lines 180-183: the dict domain -> count
RECURSIVE CountSources(_, _)
CountSources(ps, acc) ==
    IF ps = <<>> THEN acc
    ELSE LET d == DomainOf(Head(ps))
             n == IF d \in DOMAIN acc THEN acc[d] ELSE 0
         IN  CountSources(Tail(ps),
                 [k \in DOMAIN acc \cup {d} |-> IF k = d THEN n + 1 ELSE acc[k]])

EmptyDict == [k \in {} |-> 0]

Goto(t, label) == pc' = [pc EXCEPT ![t] = label]

\* an unhandled exception in a handler: Flask answers 500
InternalError == [status |-> 500]

Fails(t) ==
    /\ Goto(t, "done")
    /\ resp' = [resp EXCEPT ![t] = InternalError]

\* update_proxy_cache() is called (lines 145, 161, 175)
CallUpdate(t) ==
    /\ Goto(t, "harvest")
    /\ ran' = [ran EXCEPT ![t] = @ + 1]
    /\ startedSincePublish' = startedSincePublish + 1

\* the first statement after the refresh check
AfterCheck(t) ==
    CASE kind[t] = "proxies" -> "resp_count"
      [] kind[t] = "by_protocol" -> "filter"
      [] kind[t] = "stats" -> "stats_http"

\* GET /proxies arrives
get_proxies(t) ==
    /\ pc[t] = "idle"
    /\ Goto(t, "check_empty")
    /\ kind' = [kind EXCEPT ![t] = "proxies"]
    /\ UNCHANGED <<pool, proxy_cache, now, protocol, working_proxies, resp, ran, ghostVars, mainVars>>

\* GET /proxies/<protocol> arrives (lines 154-157)
get_proxies_by_protocol(t) ==
    /\ pc[t] = "idle"
    /\ \E p \in RequestProtocols :
        /\ kind' = [kind EXCEPT ![t] = "by_protocol"]
        /\ protocol' = [protocol EXCEPT ![t] = p]
        /\ IF ValidProtocol(p)
           THEN Goto(t, "check_empty") /\ UNCHANGED resp
           ELSE /\ Goto(t, "done")
                /\ resp' = [resp EXCEPT ![t] =
                       [status |-> HTTP_BAD_REQUEST, error |-> "Protocolo no valido. Use http o https"]]
    /\ UNCHANGED <<pool, proxy_cache, now, working_proxies, ran, ghostVars, mainVars>>

\* GET /stats arrives
get_stats(t) ==
    /\ pc[t] = "idle"
    /\ Goto(t, "check_empty")
    /\ kind' = [kind EXCEPT ![t] = "stats"]
    /\ UNCHANGED <<pool, proxy_cache, now, protocol, working_proxies, resp, ran, ghostVars, mainVars>>

\* the first operand of the refresh check (lines 143, 159, 174)
CheckEmpty(t) ==
    /\ pc[t] = "check_empty"
    /\ IF IsEmpty(proxy_cache)
       THEN CallUpdate(t)
       ELSE /\ Goto(t, IF kind[t] = "stats" THEN AfterCheck(t) ELSE "check_stale")
            /\ UNCHANGED <<ran, startedSincePublish>>
    /\ UNCHANGED <<pool, proxy_cache, now, kind, protocol, working_proxies, resp, published, mainVars>>

\* the second operand (lines 144, 160); None + timedelta is a TypeError
CheckStale(t) ==
    /\ pc[t] = "check_stale"
    /\ IF proxy_cache.last_updated = None
       THEN Fails(t) /\ UNCHANGED <<ran, startedSincePublish>>
       ELSE IF IsStale(proxy_cache, now)
       THEN CallUpdate(t) /\ UNCHANGED resp
       ELSE Goto(t, AfterCheck(t)) /\ UNCHANGED <<resp, ran, startedSincePublish>>
    /\ UNCHANGED <<pool, proxy_cache, now, kind, protocol, working_proxies, published, mainVars>>

\* lines 81-120 of update_proxy_cache in a handler thread: the fetches, the
\* deduplication and the probes touch nothing shared
Harvest(t, uniques) ==
    /\ pc[t] = "harvest"
    /\ \E u \in uniques :
         IF u.raised
         THEN Fails(t) /\ UNCHANGED working_proxies
         ELSE \E probes \in [1..Len(u.value) -> Probes] :
                /\ working_proxies' =
                       [working_proxies EXCEPT ![t] = VerifyAll(u.value, probes, now)]
                /\ Goto(t, "write_proxies")
                /\ UNCHANGED resp
    /\ UNCHANGED <<pool, proxy_cache, now, kind, protocol, ran, ghostVars, mainVars>>

\* the same keeping the previous entries when the cycle verified none
WriteProxies_KeepPrior(t) ==
    /\ pc[t] = "write_proxies"
    /\ proxy_cache' = IF working_proxies[t] = <<>> THEN proxy_cache
                      ELSE [proxy_cache EXCEPT !.proxies = working_proxies[t]]
    /\ Goto(t, "write_last_updated")
    /\ UNCHANGED <<pool, now, kind, protocol, working_proxies, resp, ran, ghostVars, mainVars>>

\* line 123
WriteProxies(t) ==
    /\ pc[t] = "write_proxies"
    /\ proxy_cache' = [proxy_cache EXCEPT !.proxies = working_proxies[t]]
    /\ Goto(t, "write_last_updated")
    /\ UNCHANGED <<pool, now, kind, protocol, working_proxies, resp, ran, ghostVars, mainVars>>

\* line 124, and the return to the handler
WriteLastUpdated(t) ==
    /\ pc[t] = "write_last_updated"
    /\ proxy_cache' = [proxy_cache EXCEPT !.last_updated = Some(now)]
    /\ published' = <<working_proxies[t], Some(now)>>
    /\ startedSincePublish' = 0
    /\ working_proxies' = [working_proxies EXCEPT ![t] = <<>>]
    /\ Goto(t, AfterCheck(t))
    /\ UNCHANGED <<pool, now, kind, protocol, resp, ran, mainVars>>

\* one more key of the response dict
With(r, key, v) == (key :> v) @@ r

ReadStep(t, to, r) ==
    /\ Goto(t, to)
    /\ resp' = [resp EXCEPT ![t] = r]
    /\ UNCHANGED <<pool, proxy_cache, now, kind, protocol, working_proxies, ran, ghostVars, mainVars>>

\* the response is complete: jsonify(...) answers 200
Ok(r) == With(r, "status", HTTP_OK)

\* reading last_updated for the response; None.isoformat() is an AttributeError
LastUpdatedText(t) ==
    With(resp[t], "last_updated", isoformat(TheValue(proxy_cache.last_updated)))

\* get_proxies, lines 148-150
get_proxies_count(t) ==
    /\ pc[t] = "resp_count"
    /\ ReadStep(t, "resp_last_updated",
                With(resp[t], "count", Len(proxy_cache.proxies)))

get_proxies_last_updated(t) ==
    /\ pc[t] = "resp_last_updated"
    /\ IF proxy_cache.last_updated = None
       THEN ReadStep(t, "done", InternalError)
       ELSE ReadStep(t, "resp_proxies", LastUpdatedText(t))

get_proxies_proxies(t) ==
    /\ pc[t] = "resp_proxies"
    /\ ReadStep(t, "done", Ok(With(resp[t], "proxies", proxy_cache.proxies)))

\* get_proxies_by_protocol, lines 163-169
get_proxies_by_protocol_filter(t) ==
    /\ pc[t] = "filter"
    /\ LET filtered == FilterByProtocol(proxy_cache.proxies, protocol[t])
       IN  ReadStep(t, "done",
                    [status |-> HTTP_OK, count |-> Len(filtered), protocol |-> protocol[t],
                     proxies |-> filtered])

\* get_stats, lines 177-190
get_stats_http(t) ==
    /\ pc[t] = "stats_http"
    /\ ReadStep(t, "stats_https",
                With(resp[t], "http_proxies", CountHttp(proxy_cache.proxies)))

get_stats_https(t) ==
    /\ pc[t] = "stats_https"
    /\ ReadStep(t, "stats_sources",
                With(resp[t], "https_proxies", Len(proxy_cache.proxies) - resp[t].http_proxies))

get_stats_sources(t) ==
    /\ pc[t] = "stats_sources"
    /\ ReadStep(t, "stats_total",
                With(resp[t], "sources", CountSources(proxy_cache.proxies, EmptyDict)))

get_stats_total(t) ==
    /\ pc[t] = "stats_total"
    /\ ReadStep(t, "stats_last_updated",
                With(resp[t], "total_proxies", Len(proxy_cache.proxies)))

get_stats_last_updated(t) ==
    /\ pc[t] = "stats_last_updated"
    /\ IF proxy_cache.last_updated = None
       THEN ReadStep(t, "done", InternalError)
       ELSE ReadStep(t, "done", Ok(LastUpdatedText(t)))

\* the response is sent
Respond(t) ==
    /\ pc[t] = "done"
    /\ Goto(t, "idle")
    /\ kind' = [kind EXCEPT ![t] = "none"]
    /\ protocol' = [protocol EXCEPT ![t] = "none"]
    /\ resp' = [resp EXCEPT ![t] = NoResp]
    /\ ran' = [ran EXCEPT ![t] = 0]
    /\ UNCHANGED <<pool, proxy_cache, now, working_proxies, ghostVars, mainVars>>

Handler(t, uniques) ==
    \/ get_proxies(t)
    \/ get_proxies_by_protocol(t)
    \/ get_stats(t)
    \/ CheckEmpty(t)
    \/ CheckStale(t)
    \/ Harvest(t, uniques)
    \/ WriteProxies(t)
    \/ WriteLastUpdated(t)
    \/ get_proxies_count(t)
    \/ get_proxies_last_updated(t)
    \/ get_proxies_proxies(t)
    \/ get_proxies_by_protocol_filter(t)
    \/ get_stats_http(t)
    \/ get_stats_https(t)
    \/ get_stats_sources(t)
    \/ get_stats_total(t)
    \/ get_stats_last_updated(t)
    \/ Respond(t)

(* ------------------------- the served application ---------------------- *)
\* the module is imported by a WSGI server: lines 18-22, no start-up cycle
Init ==
    /\ proxy_cache = [proxies |-> <<>>, last_updated |-> None,
                      expires_in |-> CACHE_EXPIRATION_MINUTES]
    /\ now = 0
    /\ pc = [t \in Threads |-> "idle"]
    /\ kind = [t \in Threads |-> "none"]
    /\ protocol = [t \in Threads |-> "none"]
    /\ working_proxies = [t \in Threads |-> <<>>]
    /\ resp = [t \in Threads |-> NoResp]
    /\ ran = [t \in Threads |-> 0]
    /\ published = <<<<>>, None>>
    /\ startedSincePublish = 0
    /\ main_pc = "served"
    /\ futures = <<>>
    /\ fetch_i = 0
    /\ all_proxies = <<>>
    /\ unique_proxies = <<>>
    /\ results = <<>>
    /\ verify_i = 0
    /\ main_working = <<>>
    /\ completed = <<>>
    /\ pool = NoPool

\* requests served concurrently, one thread each
Next == Tick(MaxTimeShort) \/ \E t \in Threads : Handler(t, ConcurrentUniques)

Spec == Init /\ [][Next]_vars

\* requests served one at a time
Caller == CHOOSE t \in Threads : \A u \in Threads : t <= u

NextSeq == Tick(MaxTime) \/ Handler(Caller, SeqUniques)

SpecSeq == Init /\ [][NextSeq]_vars

(* ---------------- update_proxy_cache at start-up, task by task ---------- *)
PendingTask == [state |-> "pending", net |-> "none", result |-> Returns(<<>>)]

\* which way the fetch of a source went
NetKind(page) ==
    IF page.error THEN "error" ELSE IF page.table = None THEN "no_table" ELSE "table"

\* which way the probe of a candidate went
ProbeKind(probe) ==
    IF probe.error THEN "error" ELSE IF probe.status_code = HTTP_OK THEN "ok" ELSE "refused"

Running(tasks) == { i \in DOMAIN tasks : tasks[i].state = "running" }

\* a worker of a ThreadPoolExecutor(max_workers) takes the oldest queued task
CanStart(tasks, i, max_workers) ==
    /\ i \in DOMAIN tasks
    /\ tasks[i].state = "pending"
    /\ \A j \in 1..(i - 1) : tasks[j].state # "pending"
    /\ Cardinality(Running(tasks)) < max_workers

\* lines 90-100: one task per source is submitted
submit_fetch ==
    /\ main_pc = "start"
    /\ main_pc' = "fetch"
    /\ futures' = [s \in SourceIds |-> PendingTask]
    /\ fetch_i' = 1
    /\ all_proxies' = <<>>
    /\ UNCHANGED <<pool, proxy_cache, now, serveVars, ghostVars, unique_proxies, results, verify_i,
                   main_working, completed>>

fetch_task_start(s) ==
    /\ main_pc = "fetch"
    /\ CanStart(futures, s, FetchWorkers)
    /\ futures' = [futures EXCEPT ![s].state = "running"]
    /\ UNCHANGED <<pool, proxy_cache, now, serveVars, ghostVars, main_pc, fetch_i, all_proxies,
                   unique_proxies, results, verify_i, main_working, completed>>

\* what source s can answer when only the first n sources answer
PagesOf(s, n) == IF s <= n THEN Pages ELSE {NetError}

\* fetch_proxies_from_source(url, parser) ends, whatever the network answered
\* (live: how many of the sources answer, the others time out)
fetch_task_finish(s, live) ==
    /\ main_pc = "fetch"
    /\ s \in DOMAIN futures
    /\ futures[s].state = "running"
    /\ \E page \in PagesOf(s, live) :
         futures' = [futures EXCEPT ![s] =
             [state |-> "done", net |-> NetKind(page),
              result |-> fetch_proxies_from_source(sources[s].url, sources[s].parser, page)]]
    /\ UNCHANGED <<pool, proxy_cache, now, serveVars, ghostVars, main_pc, fetch_i, all_proxies,
                   unique_proxies, results, verify_i, main_working, completed>>

\* the same taking what a future holds without waiting for its task
collect_fetch_NoWait ==
    /\ main_pc = "fetch"
    /\ fetch_i \in DOMAIN futures
    /\ IF futures[fetch_i].result.raised
       THEN main_pc' = "aborted" /\ UNCHANGED <<fetch_i, all_proxies>>
       ELSE /\ all_proxies' = all_proxies \o futures[fetch_i].result.value
            /\ fetch_i' = fetch_i + 1
            /\ UNCHANGED main_pc
    /\ UNCHANGED <<pool, proxy_cache, now, serveVars, ghostVars, futures, unique_proxies, results,
                   verify_i, main_working, completed>>

\* lines 102-103: future.result() returns the list, or raises what the task raised
collect_fetch ==
    /\ main_pc = "fetch"
    /\ fetch_i \in DOMAIN futures
    /\ futures[fetch_i].state = "done"
    /\ IF futures[fetch_i].result.raised
       THEN main_pc' = "aborted" /\ UNCHANGED <<fetch_i, all_proxies>>
       ELSE /\ all_proxies' = all_proxies \o futures[fetch_i].result.value
            /\ fetch_i' = fetch_i + 1
            /\ UNCHANGED main_pc
    /\ UNCHANGED <<pool, proxy_cache, now, serveVars, ghostVars, futures, unique_proxies, results,
                   verify_i, main_working, completed>>

\* lines 105-117: the duplicates are dropped and one probe per candidate is submitted.
\* futures and all_proxies are not read after line 108: they are dropped here
dedupe_and_submit ==
    /\ main_pc = "fetch"
    /\ fetch_i > Len(futures)
    /\ main_pc' = "verify"
    /\ unique_proxies' = Dedupe(all_proxies)
    /\ results' = [i \in 1..Len(unique_proxies') |-> [PendingTask EXCEPT !.result = None]]
    /\ verify_i' = 1
    /\ main_working' = <<>>
    /\ futures' = <<>>
    /\ all_proxies' = <<>>
    /\ UNCHANGED <<pool, proxy_cache, now, serveVars, ghostVars, fetch_i, completed>>

verify_task_start(i) ==
    /\ main_pc = "verify"
    /\ CanStart(results, i, VerifyWorkers)
    /\ results' = [results EXCEPT ![i].state = "running"]
    /\ UNCHANGED <<pool, proxy_cache, now, serveVars, ghostVars, main_pc, futures, fetch_i,
                   all_proxies, unique_proxies, verify_i, main_working, completed>>

\* the same with a failed probe put back in the queue
verify_task_finish_Retry(i) ==
    /\ main_pc = "verify"
    /\ i \in DOMAIN results
    /\ results[i].state = "running"
    /\ \E probe \in Probes :
         results' = [results EXCEPT ![i] =
             IF ProbeKind(probe) = "ok"
             THEN [state |-> "done", net |-> ProbeKind(probe),
                   result |-> test_proxy(unique_proxies[i], probe, now)]
             ELSE [PendingTask EXCEPT !.result = None]]
    /\ completed' = Append(completed, i)
    /\ UNCHANGED <<pool, proxy_cache, now, serveVars, ghostVars, main_pc, futures, fetch_i,
                   all_proxies, unique_proxies, verify_i, main_working>>

\* test_proxy(proxy) ends, whatever the probe met
verify_task_finish(i) ==
    /\ main_pc = "verify"
    /\ i \in DOMAIN results
    /\ results[i].state = "running"
    /\ \E probe \in Probes :
         results' = [results EXCEPT ![i] =
             [state |-> "done", net |-> ProbeKind(probe),
              result |-> test_proxy(unique_proxies[i], probe, now)]]
    /\ completed' = Append(completed, i)
    /\ UNCHANGED <<pool, proxy_cache, now, serveVars, ghostVars, main_pc, futures, fetch_i,
                   all_proxies, unique_proxies, verify_i, main_working>>

\* the same taking the results as the tasks complete (as_completed)
collect_verify_AsCompleted ==
    /\ main_pc = "verify"
    /\ verify_i \in DOMAIN completed
    /\ main_working' = main_working \o Collect(<<results[completed[verify_i]].result>>)
    /\ verify_i' = verify_i + 1
    /\ UNCHANGED <<pool, proxy_cache, now, serveVars, ghostVars, main_pc, futures, fetch_i,
                   all_proxies, unique_proxies, results, completed>>

\* lines 118-120: the results of executor.map, in the order of unique_proxies
collect_verify ==
    /\ main_pc = "verify"
    /\ verify_i \in DOMAIN results
    /\ results[verify_i].state = "done"
    /\ main_working' = main_working \o Collect(<<results[verify_i].result>>)
    /\ verify_i' = verify_i + 1
    /\ UNCHANGED <<pool, proxy_cache, now, serveVars, ghostVars, main_pc, futures, fetch_i,
                   all_proxies, unique_proxies, results, completed>>

\* line 123
main_write_proxies ==
    /\ main_pc = "verify"
    /\ verify_i > Len(results)
    /\ main_pc' = "write_last_updated"
    /\ proxy_cache' = [proxy_cache EXCEPT !.proxies = main_working]
    /\ UNCHANGED <<pool, now, serveVars, ghostVars, futures, fetch_i, all_proxies, unique_proxies,
                   results, verify_i, main_working, completed>>

\* line 124
main_write_last_updated ==
    /\ main_pc = "write_last_updated"
    /\ main_pc' = "done"
    /\ proxy_cache' = [proxy_cache EXCEPT !.last_updated = Some(now)]
    /\ published' = <<main_working, Some(now)>>
    /\ startedSincePublish' = 0
    /\ UNCHANGED <<pool, now, serveVars, futures, fetch_i, all_proxies, unique_proxies, results,
                   verify_i, main_working, completed>>

\* python app.py: line 195 runs before the server starts
InitCycle ==
    /\ proxy_cache = [proxies |-> <<>>, last_updated |-> None,
                      expires_in |-> CACHE_EXPIRATION_MINUTES]
    /\ now = 0
    /\ pc = [t \in Threads |-> "idle"]
    /\ kind = [t \in Threads |-> "none"]
    /\ protocol = [t \in Threads |-> "none"]
    /\ working_proxies = [t \in Threads |-> <<>>]
    /\ resp = [t \in Threads |-> NoResp]
    /\ ran = [t \in Threads |-> 0]
    /\ published = <<<<>>, None>>
    /\ startedSincePublish = 1
    /\ main_pc = "start"
    /\ futures = <<>>
    /\ fetch_i = 0
    /\ all_proxies = <<>>
    /\ unique_proxies = <<>>
    /\ results = <<>>
    /\ verify_i = 0
    /\ main_working = <<>>
    /\ completed = <<>>
    /\ pool = NoPool

\* a step of the cycle: of the thread that runs update_proxy_cache or of a worker
CycleStep(live) ==
    \/ submit_fetch
    \/ \E s \in SourceIds : fetch_task_start(s) \/ fetch_task_finish(s, live)
    \/ collect_fetch
    \/ dedupe_and_submit
    \/ \E i \in 1..Len(results) : verify_task_start(i) \/ verify_task_finish(i)
    \/ collect_verify
    \/ main_write_proxies
    \/ main_write_last_updated

\* every source may answer
NextCycle == Tick(MaxTimeShort) \/ CycleStep(Len(sources))

SpecCycle == InitCycle /\ [][NextCycle]_vars

(* ------------- the same two programs under fair scheduling -------------- *)
\* the process is either the script at its start-up cycle (line 195) or the
\* application imported by a server and serving one caller
InitLive == InitCycle \/ Init

\* a step of the handler of a request that has arrived
HandlerStep(t) == pc[t] # "idle" /\ main_pc = "served" /\ Handler(t, ConcurrentUniques)

\* a request arrives
Arrival(t) == pc[t] = "idle" /\ main_pc = "served" /\ Handler(t, ConcurrentUniques)

NextLive ==
    \/ Tick(MaxTimeShort)
    \/ CycleStep(ConcurrentSources)
    \/ Arrival(Caller)
    \/ HandlerStep(Caller)

\* a step of the handler other than the return of lines 81-120
HandlerRest(t) == pc[t] # "harvest" /\ HandlerStep(t)

\* lines 81-120 return: the step Harvest is enabled with every outcome alike, so
\* weak fairness of its step with one outcome (every source timed out) is weak
\* fairness of the step
HarvestReturns(t) ==
    main_pc = "served" /\ Harvest(t, {UniqueOf([s \in SourceIds |-> NetError])})

\* threads that can run do run: the main thread, the workers, the handler
SpecLive ==
    /\ InitLive
    /\ [][NextLive]_vars
    /\ WF_vars(CycleStep(ConcurrentSources))
    /\ WF_vars(HandlerRest(Caller))
    /\ WF_vars(HarvestReturns(Caller))

(* ------------------ the deduplication of lines 105-112 alone ----------- *)
\* candidates as fetch_proxies_from_source builds them from the cells of a row
TEXT_HOST == <<"1", ".", "1">>
TEXT_HOST_PORT == <<"1", ".", "1", ":", "8">>
TEXT_PORT == <<"0">>
TEXT_PORT_PORT == <<"8", ":", "0">>

DedupeCandidates ==
    { ParseRow(<<ip, port>>, sources[s].url)[1] :
        ip \in {TEXT_HOST, TEXT_HOST_PORT}, port \in {TEXT_PORT, TEXT_PORT_PORT}, s \in {1, 2} }

InitDedupe ==
    /\ proxy_cache = [proxies |-> <<>>, last_updated |-> None,
                      expires_in |-> CACHE_EXPIRATION_MINUTES]
    /\ now = 0
    /\ pc = [t \in Threads |-> "idle"]
    /\ kind = [t \in Threads |-> "none"]
    /\ protocol = [t \in Threads |-> "none"]
    /\ working_proxies = [t \in Threads |-> <<>>]
    /\ resp = [t \in Threads |-> NoResp]
    /\ ran = [t \in Threads |-> 0]
    /\ published = <<<<>>, None>>
    /\ startedSincePublish = 1
    /\ main_pc = "dedupe"
    /\ futures = <<>>
    /\ fetch_i = 0
    /\ all_proxies \in SeqsUpTo(DedupeCandidates, MaxLen)
    /\ unique_proxies = <<>>
    /\ results = <<>>
    /\ verify_i = 0
    /\ main_working = <<>>
    /\ completed = <<>>
    /\ pool = NoPool

\* lines 105-112
dedupe ==
    /\ main_pc = "dedupe"
    /\ main_pc' = "deduped"
    /\ unique_proxies' = Dedupe(all_proxies)
    /\ UNCHANGED <<pool, proxy_cache, now, serveVars, ghostVars, futures, fetch_i, all_proxies,
                   results, verify_i, main_working, completed>>

NextDedupe == dedupe

SpecDedupe == InitDedupe /\ [][NextDedupe]_vars

(* ---------------- fetch_proxies_from_source alone ----------------------- *)
\* cells a listing can hold besides the well-formed ones
CELL_BLANK == <<" ">>
CELL_PORT_ZERO == <<"0">>
CELL_PORT_WORD == <<"x">>
CELL_PORT_BEYOND == <<"6", "5", "5", "3", "6">>

FetchRows ==
    { <<ip, port>> : ip \in {CELL_IP_A, CELL_BLANK},
                     port \in {CELL_PORT, CELL_PORT_ZERO, CELL_PORT_WORD, CELL_PORT_BEYOND,
                               CELL_BLANK} }
    \cup { <<CELL_IP_A>> }

FetchPages ==
    {NetError, PageWithoutTable}
    \cup { PageWith(<<HeaderRow>> \o rows) : rows \in SeqsUpTo(FetchRows, MaxFetchRows) }

\* one call fetch_proxies_from_source(url, parser) and what the network answers it
InitFetch ==
    /\ proxy_cache = [proxies |-> <<>>, last_updated |-> None,
                      expires_in |-> CACHE_EXPIRATION_MINUTES]
    /\ now = 0
    /\ pc = [t \in Threads |-> "idle"]
    /\ kind = [t \in Threads |-> "none"]
    /\ protocol = [t \in Threads |-> "none"]
    /\ working_proxies = [t \in Threads |-> <<>>]
    /\ resp = [t \in Threads |-> NoResp]
    /\ ran = [t \in Threads |-> 0]
    /\ published = <<<<>>, None>>
    /\ startedSincePublish = 1
    /\ main_pc = "fetch_source"
    /\ \E page \in FetchPages :
         futures = << [state |-> "running", net |-> NetKind(page), page |-> page] >>
    /\ fetch_i \in SourceIds
    /\ all_proxies = <<>>
    /\ unique_proxies = <<>>
    /\ results = <<>>
    /\ verify_i = 0
    /\ main_working = <<>>
    /\ completed = <<>>
    /\ pool = NoPool

\* lines 24-56 for source fetch_i
fetch_source ==
    /\ main_pc = "fetch_source"
    /\ main_pc' = "fetched"
    /\ all_proxies' = fetch_proxies_from_source(sources[fetch_i].url, sources[fetch_i].parser,
                                                futures[1].page).value
    /\ UNCHANGED <<pool, proxy_cache, now, serveVars, ghostVars, futures, fetch_i,
                   unique_proxies, results, verify_i, main_working, completed>>

NextFetch == fetch_source

SpecFetch == InitFetch /\ [][NextFetch]_vars

(* ------- a ThreadPoolExecutor with any number of tasks, as counts ------- *)
\* max_workers of the two executors (lines 93 and 116)
PoolSizes == {FetchWorkers, VerifyWorkers}

\* the executor after the submits of lines 95-100, or after the map of line 117
SubmittedPool(max_workers, n) ==
    [max_workers |-> max_workers, queued |-> n, running |-> 0, finished |-> 0]

InitPool ==
    /\ proxy_cache = [proxies |-> <<>>, last_updated |-> None,
                      expires_in |-> CACHE_EXPIRATION_MINUTES]
    /\ now = 0
    /\ pc = [t \in Threads |-> "idle"]
    /\ kind = [t \in Threads |-> "none"]
    /\ protocol = [t \in Threads |-> "none"]
    /\ working_proxies = [t \in Threads |-> <<>>]
    /\ resp = [t \in Threads |-> NoResp]
    /\ ran = [t \in Threads |-> 0]
    /\ published = <<<<>>, None>>
    /\ startedSincePublish = 1
    /\ main_pc = "pool"
    /\ futures = <<>>
    /\ fetch_i = 0
    /\ all_proxies = <<>>
    /\ unique_proxies = <<>>
    /\ results = <<>>
    /\ verify_i = 0
    /\ main_working = <<>>
    /\ completed = <<>>
    /\ pool \in { SubmittedPool(w, n) : w \in PoolSizes, n \in 0..MaxTasks }

\* the same without the ceiling
PoolCanStart_Unbounded(p) == p.queued > 0

\* a queued task is taken when fewer than max_workers tasks are running
PoolCanStart(p) == p.queued > 0 /\ p.running < p.max_workers

pool_task_start ==
    /\ main_pc = "pool"
    /\ PoolCanStart(pool)
    /\ pool' = [pool EXCEPT !.queued = @ - 1, !.running = @ + 1]
    /\ UNCHANGED <<proxy_cache, now, serveVars, ghostVars, mainVars>>

\* a running task ends (it returns, raises or times out)
pool_task_finish ==
    /\ main_pc = "pool"
    /\ pool.running > 0
    /\ pool' = [pool EXCEPT !.running = @ - 1, !.finished = @ + 1]
    /\ UNCHANGED <<proxy_cache, now, serveVars, ghostVars, mainVars>>

NextPool == pool_task_start \/ pool_task_finish

\* the workers are threads of their own: a task that can start or end does so
SpecPool ==
    InitPool /\ [][NextPool]_vars /\ WF_vars(pool_task_start) /\ WF_vars(pool_task_finish)

(* ============================ properties =============================== *)
Entries(seq) == { seq[i] : i \in DOMAIN seq }
Pair(p) == <<p.ip, p.port>>
InFlight == { t \in Threads : pc[t] \in CyclePcs }
ReaderPcs == {"check_empty", "check_stale", "resp_count", "resp_last_updated", "resp_proxies",
              "filter", "stats_http", "stats_https", "stats_sources", "stats_total",
              "stats_last_updated"}
CachePair == <<proxy_cache.proxies, proxy_cache.last_updated>>
Expired(t) ==
    /\ proxy_cache.proxies # <<>>
    /\ proxy_cache.last_updated # None
    /\ t > TheValue(proxy_cache.last_updated) + CACHE_EXPIRATION_MINUTES
NotExpired(t) ==
    /\ proxy_cache.proxies # <<>>
    /\ proxy_cache.last_updated # None
    /\ t <= TheValue(proxy_cache.last_updated) + CACHE_EXPIRATION_MINUTES

\* C1: in every reachable state of the concurrently served application, the number
\* of harvest cycles that have started and not yet published is 0 or 1.
C1_AtMostOneCycleInFlight == Cardinality(InFlight) <= 1

\* C2: the read-through calls issued against one empty or stale cache cause one
\* harvest cycle in total: no second update_proxy_cache call starts before the
\* cycle of the first has published.
C2_OneCycleForConcurrentCalls == startedSincePublish <= 1

\* C3: whenever a request is about to read the cache, the pair (entries,
\* last_updated) it holds is the pair published by one completed cycle (or the
\* initial pair), never the entries of one cycle with the last_updated of another.
C3_PublishIsAtomic == (\E t \in Threads : pc[t] \in ReaderPcs) => CachePair = published

\* C4: for one caller and non-empty entries published at T, the check of a
\* read-through made at a time <= T + 30 starts no cycle and leaves the cache alone,
\* the check made at a time > T + 30 starts one cycle; no further cycle starts in
\* the request, and the response of /proxies carries the entries of the cache, which
\* are those of that cycle when one ran.
C4_Decision ==
    \A t \in Threads :
        (kind[t] \in {"proxies", "by_protocol"} /\ pc[t] = "check_stale"
            /\ pc'[t] # "check_stale"
            /\ proxy_cache.proxies # <<>> /\ proxy_cache.last_updated # None)
        => IF now <= TheValue(proxy_cache.last_updated) + CACHE_EXPIRATION_MINUTES
           THEN pc'[t] \in {"resp_count", "filter"} /\ ran'[t] = 0
                /\ proxy_cache' = proxy_cache
           ELSE pc'[t] = "harvest" /\ ran'[t] = 1
C4_Unchanged ==
    \A t \in Threads :
        (kind[t] = "proxies" /\ pc[t] \in {"resp_count", "resp_last_updated", "resp_proxies"})
        => proxy_cache' = proxy_cache /\ ran'[t] = ran[t]
C4_Result ==
    \A t \in Threads :
        (kind[t] = "proxies" /\ pc[t] = "done" /\ resp[t].status = HTTP_OK)
        => /\ ran[t] <= 1
           /\ resp[t].proxies = proxy_cache.proxies
           /\ resp[t].count = Len(proxy_cache.proxies)
           /\ ran[t] = 1 => CachePair = published
C4_ReadThroughStaleness == [][C4_Decision /\ C4_Unchanged]_vars /\ []C4_Result
C4_Witness ==
    /\ kind[Caller] = "proxies"
    /\ pc[Caller] = "harvest"
    /\ ran[Caller] = 1
    /\ proxy_cache.proxies # <<>>
    /\ now = TheValue(proxy_cache.last_updated) + CACHE_EXPIRATION_MINUTES + 1

\* C5: whenever /stats makes its refresh check with non-empty entries and
\* now > last_updated + ttl, it calls update_proxy_cache, as /proxies does.
C5_StatsChecksStaleness ==
    [][\A t \in Threads :
         (kind[t] = "stats" /\ pc[t] = "check_empty" /\ pc'[t] # "check_empty" /\ Expired(now))
         => pc'[t] = "harvest"]_vars

\* C6: every entry of the cache has working = True and a last_checked, and is a
\* candidate of the cycle whose probe answered 200; once the cycle has written the
\* cache, no candidate whose probe failed or answered another status is in it.
C6_Verified(e) ==
    /\ e.working = Some(TRUE)
    /\ e.last_checked # None
    /\ \E i \in DOMAIN results :
         /\ results[i].state = "done"
         /\ results[i].net = "ok"
         /\ Pair(unique_proxies[i]) = Pair(e)
C6_OnlyVerifiedServed ==
    /\ \A e \in Entries(proxy_cache.proxies) : C6_Verified(e)
    /\ main_pc \in {"write_last_updated", "done"} =>
         \A i \in DOMAIN results :
            results[i].net # "ok" =>
                \A e \in Entries(proxy_cache.proxies) : Pair(e) # Pair(unique_proxies[i])
C6_Witness ==
    /\ main_pc = "done"
    /\ proxy_cache.proxies # <<>>
    /\ \E i \in DOMAIN results : results[i].net = "refused"
    /\ \E i \in DOMAIN results : results[i].net = "ok"

\* C7: the deduplicated list has no two entries with the same (ip, port), holds
\* exactly the (ip, port) pairs of the input, and lists the first record of each
\* pair in the order of the input.
FirstOf(all, pr) == CHOOSE i \in DOMAIN all : Pair(all[i]) = pr /\ \A j \in 1..(i - 1) : Pair(all[j]) # pr
C7_DedupeByPair ==
    main_pc = "deduped" =>
        /\ \A i, j \in DOMAIN unique_proxies :
              Pair(unique_proxies[i]) = Pair(unique_proxies[j]) => i = j
        /\ { Pair(p) : p \in Entries(unique_proxies) } = { Pair(p) : p \in Entries(all_proxies) }
        /\ \A i \in DOMAIN unique_proxies :
              unique_proxies[i] = all_proxies[FirstOf(all_proxies, Pair(unique_proxies[i]))]
        /\ \A i, j \in DOMAIN unique_proxies :
              i < j => FirstOf(all_proxies, Pair(unique_proxies[i]))
                       < FirstOf(all_proxies, Pair(unique_proxies[j]))

\* C8: a source whose fetch fails (error, or a page without a table) yields no
\* candidate and raises nothing, the cycle is never aborted, the candidates probed
\* are the deduplicated candidates of the sources that succeeded, and the entries
\* written are those of them whose probe answered 200, in that order.
FetchFailed(task) == task.net \in {"error", "no_table"}
SucceededCandidates ==
    Concat([s \in DOMAIN futures |->
                IF FetchFailed(futures[s]) THEN <<>> ELSE futures[s].result.value])
Unstamped(e) == [e EXCEPT !.last_checked = None, !.working = None]
RECURSIVE OkCandidates(_)
OkCandidates(n) ==
    IF n = 0 THEN <<>>
    ELSE OkCandidates(n - 1)
         \o (IF results[n].net = "ok" THEN <<unique_proxies[n]>> ELSE <<>>)
C8_State ==
    /\ main_pc # "aborted"
    /\ \A s \in DOMAIN futures :
          (futures[s].state = "done" /\ FetchFailed(futures[s]))
          => futures[s].result = Returns(<<>>)
    /\ main_pc \in {"write_last_updated", "done"} =>
          [i \in DOMAIN proxy_cache.proxies |-> Unstamped(proxy_cache.proxies[i])]
          = OkCandidates(Len(results))
C8_Join ==
    (main_pc = "fetch" /\ main_pc' = "verify") => unique_proxies' = Dedupe(SucceededCandidates)
C8_PartialSourceFailure == []C8_State /\ [][C8_Join]_vars
C8_Witness ==
    /\ main_pc = "fetch"
    /\ fetch_i > Len(futures)
    /\ \E s \in DOMAIN futures : futures[s].net = "error"
    /\ \E s \in DOMAIN futures : futures[s].net = "no_table"
    /\ all_proxies # <<>>

\* C9: while a /proxies/<protocol> request with a protocol other than http and
\* https is being served, its response is 400 with an error body and it has called
\* no update_proxy_cache; the step that serves it leaves the cache as it is.
C9_State ==
    \A t \in Threads :
        (kind[t] = "by_protocol" /\ protocol[t] \notin {"http", "https"})
        => /\ pc[t] = "done"
           /\ resp[t].status = HTTP_BAD_REQUEST
           /\ "error" \in DOMAIN resp[t]
           /\ ran[t] = 0
C9_Step ==
    \A t \in Threads :
        (kind'[t] = "by_protocol" /\ protocol'[t] \notin {"http", "https"})
        => proxy_cache' = proxy_cache /\ startedSincePublish' = startedSincePublish
C9_InvalidProtocol == []C9_State /\ [][C9_Step]_vars
C9_Witness ==
    /\ kind[Caller] = "by_protocol"
    /\ protocol[Caller] = "ftp"
    /\ pc[Caller] = "done"
    /\ resp[Caller].status = HTTP_BAD_REQUEST
    /\ Expired(now)

\* C10: the response of /proxies/<protocol>, protocol http or https, lists the
\* entries of the cache whose protocol is the requested one, all of them and no
\* other, in cache order, with count their number; against a fresh non-empty
\* cache the request starts no cycle and leaves the cache as it is.
IsFilterOf(r, c, p) ==
    \E f \in [DOMAIN r -> DOMAIN c] :
        /\ \A i, j \in DOMAIN r : i < j => f[i] < f[j]
        /\ \A i \in DOMAIN r : r[i] = c[f[i]]
        /\ { f[i] : i \in DOMAIN r } = { k \in DOMAIN c : c[k].protocol = p }
C10_Result ==
    \A t \in Threads :
        (kind[t] = "by_protocol" /\ pc[t] = "done" /\ resp[t].status = HTTP_OK)
        => /\ protocol[t] \in {"http", "https"}
           /\ IsFilterOf(resp[t].proxies, proxy_cache.proxies, protocol[t])
           /\ resp[t].count = Len(resp[t].proxies)
           /\ resp[t].protocol = protocol[t]
C10_Fresh ==
    \A t \in Threads :
        /\ (kind[t] = "by_protocol" /\ pc[t] = "check_stale" /\ pc'[t] # "check_stale"
               /\ NotExpired(now))
           => pc'[t] = "filter" /\ ran'[t] = 0 /\ proxy_cache' = proxy_cache
        /\ (kind[t] = "by_protocol" /\ pc[t] = "filter") => proxy_cache' = proxy_cache
C10_ProtocolFilter == []C10_Result /\ [][C10_Fresh]_vars
C10_Witness ==
    /\ kind[Caller] = "by_protocol"
    /\ pc[Caller] = "done"
    /\ ran[Caller] = 0
    /\ protocol[Caller] = "https"
    /\ resp[Caller].status = HTTP_OK
    /\ resp[Caller].count = 1
    /\ Len(proxy_cache.proxies) = 2
    /\ NotExpired(now)

\* C11: with one caller, a cycle that verified no proxy still publishes: its write
\* of line 123 empties the entries whatever they were, and when it returns the
\* cache holds no entry and last_updated is the time the cycle completed.
C11_Step ==
    \A t \in Threads :
        /\ (pc[t] = "write_proxies" /\ pc'[t] # "write_proxies" /\ working_proxies[t] = <<>>)
           => proxy_cache'.proxies = <<>>
        /\ (pc[t] = "write_last_updated" /\ pc'[t] # "write_last_updated"
               /\ working_proxies[t] = <<>>)
           => /\ proxy_cache'.proxies = <<>>
              /\ proxy_cache'.last_updated = Some(now)
              /\ published' = <<proxy_cache'.proxies, proxy_cache'.last_updated>>
C11_EmptyCyclePublished == [][C11_Step]_vars
C11_Witness ==
    /\ pc[Caller] = "write_last_updated"
    /\ working_proxies[Caller] = <<>>
    /\ published[1] # <<>>
    /\ proxy_cache.proxies = <<>>
    /\ proxy_cache.last_updated = published[2]

\* C12: in the cycle one probe is submitted per deduplicated candidate; a probe
\* that has ended is never run again (whatever its outcome), so when the cycle
\* writes the cache every candidate has been probed exactly once; a candidate
\* whose probe failed yields None, is in no entry, and the cache, the only state
\* that outlives the cycle, keeps nothing about it.
C12_State ==
    /\ main_pc \in {"verify", "write_last_updated", "done"} => Len(results) = Len(unique_proxies)
    /\ \A j, k \in DOMAIN completed : completed[j] = completed[k] => j = k
    /\ \A k \in DOMAIN completed : results[completed[k]].state = "done"
    /\ main_pc \in {"write_last_updated", "done"} =>
          /\ { completed[k] : k \in DOMAIN completed } = DOMAIN unique_proxies
          /\ \A i \in DOMAIN results :
                results[i].net # "ok" =>
                    /\ results[i].result = None
                    /\ \A e \in Entries(proxy_cache.proxies) :
                          identifier(e) # identifier(unique_proxies[i])
          /\ DOMAIN proxy_cache = {"proxies", "last_updated", "expires_in"}
          /\ \A e \in Entries(proxy_cache.proxies) : e.working = Some(TRUE)
C12_Step ==
    \A i \in DOMAIN results :
        /\ results[i].state = "done" => (i \in DOMAIN results' /\ results'[i] = results[i])
        /\ results[i].state = "running" =>
              (i \in DOMAIN results' /\ results'[i].state \in {"running", "done"})
C12_NoRetry == []C12_State /\ [][C12_Step]_vars
C12_Witness ==
    /\ main_pc = "done"
    /\ Len(unique_proxies) = 2
    /\ results[1].net = "error"
    /\ results[2].net = "ok"
    /\ completed = <<2, 1>>
    /\ Len(proxy_cache.proxies) = 1

\* C13 (as stated): the entries a cycle writes are the results of the successful
\* probes in the order in which the verify tasks completed.
C13_InCompletionOrder ==
    main_pc \in {"write_last_updated", "done"} =>
        proxy_cache.proxies = Collect([k \in DOMAIN completed |-> results[completed[k]].result])

\* C13 (amended): the entries a cycle writes are the results of the successful
\* probes in the order of unique_proxies, whatever the order of completion.
C13_InCandidateOrder ==
    main_pc \in {"write_last_updated", "done"} =>
        /\ proxy_cache.proxies = Collect([i \in DOMAIN results |-> results[i].result])
        /\ \E f \in [DOMAIN proxy_cache.proxies -> DOMAIN unique_proxies] :
              /\ \A j, k \in DOMAIN f : j < k => f[j] < f[k]
              /\ \A k \in DOMAIN f : identifier(proxy_cache.proxies[k]) = identifier(unique_proxies[f[k]])
C13_Witness ==
    /\ main_pc = "done"
    /\ Len(proxy_cache.proxies) = 2
    /\ completed = <<2, 1>>

\* C14: while the fetch phase lasts no verify task exists; the cycle passes to
\* the verify phase only when the fetch task of every source has ended; and it
\* writes the cache only when every verify task has ended.
C14_State ==
    /\ main_pc \in {"start", "fetch"} => results = <<>>
    /\ (\E i \in DOMAIN results : results[i].state # "pending") =>
          main_pc \in {"verify", "write_last_updated", "done"}
    /\ main_pc \in {"write_last_updated", "done"} =>
          \A i \in DOMAIN results : results[i].state = "done"
C14_Step ==
    /\ (main_pc = "fetch" /\ main_pc' = "verify") =>
          /\ DOMAIN futures = SourceIds
          /\ \A s \in DOMAIN futures : futures[s].state = "done"
    /\ proxy_cache' # proxy_cache =>
          /\ Len(results) = Len(unique_proxies)
          /\ \A i \in DOMAIN results : results[i].state = "done"
C14_JoinBarriers == []C14_State /\ [][C14_Step]_vars
C14_Witness ==
    /\ main_pc = "write_last_updated"
    /\ Len(results) = 2
    /\ completed = <<2, 1>>
    /\ proxy_cache.proxies # <<>>

\* C15: an executor never runs more tasks at once than its max_workers (5 for
\* the fetches, 20 for the probes), however many tasks were submitted; no task is
\* lost, and in the end none is left queued or running: all have run.
C15_Bounded ==
    main_pc = "pool" =>
        /\ pool.max_workers \in {FetchWorkers, VerifyWorkers}
        /\ pool.running <= pool.max_workers
C15_Conserve ==
    pool'.queued + pool'.running + pool'.finished = pool.queued + pool.running + pool.finished
C15_AllRun == <>[](pool.queued = 0 /\ pool.running = 0)
C15_BoundedParallelism == []C15_Bounded /\ [][C15_Conserve]_vars /\ C15_AllRun
C15_Witness ==
    /\ pool.max_workers = VerifyWorkers
    /\ pool.running = VerifyWorkers
    /\ pool.queued > 0
    /\ pool.finished > 0

\* C16: whatever the order in which the fetch tasks end, all_proxies is the
\* concatenation of the results collected so far in the order of the source list,
\* and each record kept by the deduplication is a record of the earliest source
\* of the list that lists its (ip, port): it has that source's url and protocol.
ListedBy(s, pr) == \E r \in Entries(futures[s].result.value) : Pair(r) = pr
EarliestSource(pr) ==
    CHOOSE s \in DOMAIN futures : ListedBy(s, pr) /\ \A q \in 1..(s - 1) : ~ListedBy(q, pr)
C16_State ==
    main_pc = "fetch" =>
        /\ fetch_i \in 1..(Len(futures) + 1)
        /\ all_proxies = Concat([s \in 1..(fetch_i - 1) |-> futures[s].result.value])
C16_Step ==
    (main_pc = "fetch" /\ main_pc' = "verify") =>
        /\ all_proxies = Concat([s \in DOMAIN futures |-> futures[s].result.value])
        /\ \A k \in DOMAIN unique_proxies' :
              LET u == unique_proxies'[k]
                  first == EarliestSource(Pair(u))
              IN  /\ \E s \in DOMAIN futures : ListedBy(s, Pair(u))
                  /\ u.source = sources[first].url
                  /\ u \in Entries(futures[first].result.value)
C16_SourceOrder == []C16_State /\ [][C16_Step]_vars
C16_Witness ==
    /\ main_pc = "fetch"
    /\ fetch_i > Len(futures)
    /\ Len(all_proxies) = 2
    /\ Pair(all_proxies[1]) = Pair(all_proxies[2])
    /\ all_proxies[1].source = URL_SSLPROXIES
    /\ all_proxies[1].protocol = "https"
    /\ all_proxies[2].source = URL_FREEPROXYLIST
    /\ all_proxies[2].protocol = "http"

\* C17: under fair scheduling the start-up cycle, once started, reaches its
\* publish step and ends, never aborted, whatever the fetches and the probes
\* return; a request that has arrived gets its response, and the cycle a
\* request starts reaches its publish step.
C17_Safe ==
    /\ main_pc # "aborted"
    /\ \A t \in Threads : pc[t] = "done" => resp[t].status \in {HTTP_OK, HTTP_BAD_REQUEST}
C17_CycleEnds == <>[](main_pc \in {"done", "served"})
C17_CallReturns == []<>(pc[Caller] \in {"idle", "done"} /\ CachePair = published)
C17_Terminates == []C17_Safe /\ C17_CycleEnds /\ C17_CallReturns
C17_Witness ==
    /\ main_pc = "done"
    /\ unique_proxies = <<>>
    /\ proxy_cache.proxies = <<>>
    /\ proxy_cache.last_updated = Some(now)
    /\ now > 0

\* C18: every candidate fetch_proxies_from_source returns has a non-empty address
\* and a port that is an integer of 1..65535, and the candidates are those of the
\* well-formed rows of the listing (two cells or more, a non-empty address, such
\* a port), in the order of the rows; the other rows yield none.
Digits == { DigitChar(d) : d \in 0..9 }
RECURSIVE TextValue(_)
TextValue(text) ==
    IF text = <<>> THEN 0
    ELSE 10 * TextValue(SubSeq(text, 1, Len(text) - 1))
         + (CHOOSE d \in 0..9 : DigitChar(d) = text[Len(text)])
IsPortText(text) ==
    /\ text # <<>>
    /\ \A i \in DOMAIN text : text[i] \in Digits
    /\ TextValue(text) \in 1..65535
WellFormedRow(cols) ==
    /\ Len(cols) >= 2
    /\ Strip(cols[1]) # <<>>
    /\ IsPortText(Strip(cols[2]))
ListedRows == IF futures[1].page.table = None THEN <<>> ELSE Tail(TheValue(futures[1].page.table))
C18_MalformedRowsSkipped ==
    main_pc = "fetched" =>
        /\ \A c \in Entries(all_proxies) : c.ip # <<>> /\ IsPortText(c.port)
        /\ [k \in DOMAIN all_proxies |-> Pair(all_proxies[k])]
           = [k \in DOMAIN SelectSeq(ListedRows, WellFormedRow) |->
                 << Strip(SelectSeq(ListedRows, WellFormedRow)[k][1]),
                    Strip(SelectSeq(ListedRows, WellFormedRow)[k][2]) >>]

\* C19: in every reachable state non-empty entries come with a last_updated that
\* is set; no request evaluates last_updated + expires_in or formats last_updated
\* while it is None, and no request ends in an unhandled error (a 500).
C19_LastUpdatedSet ==
    /\ proxy_cache.proxies # <<>> => proxy_cache.last_updated # None
    /\ \A t \in Threads :
          pc[t] \in {"check_stale", "resp_last_updated", "stats_last_updated"}
          => proxy_cache.last_updated # None
    /\ \A t \in Threads : pc[t] = "done" => resp[t] # InternalError

\* C20: a response is computed from one state of the cache: in a /proxies
\* response count is the number of proxies listed, and in a /stats response
\* total_proxies = http_proxies + https_proxies = the sum of the counts by source.
RECURSIVE SumValues(_)
SumValues(f) ==
    IF DOMAIN f = {} THEN 0
    ELSE LET k == CHOOSE x \in DOMAIN f : TRUE
         IN  f[k] + SumValues([x \in DOMAIN f \ {k} |-> f[x]])
C20_SingleSnapshot ==
    \A t \in Threads :
        (pc[t] = "done" /\ resp[t].status = HTTP_OK) =>
            /\ kind[t] = "proxies" => resp[t].count = Len(resp[t].proxies)
            /\ kind[t] = "stats" =>
                  /\ resp[t].total_proxies = resp[t].http_proxies + resp[t].https_proxies
                  /\ resp[t].total_proxies = SumValues(resp[t].sources)

====
